---------------------------- MODULE Spec2Model ----------------------------
(***************************************************************************)
(* The interactive annotation editor of src/components/ImageEditorModal.tsx *)
(* as a state machine: the canvas bitmap and its 2d context, the gesture   *)
(* refs, the undo history kept in React state, and the event handlers.     *)
(* With it, the image slots of src/App.tsx (uploads through FileReader and *)
(* removals), and the contain fit of setupCanvas in binary64 arithmetic.   *)
(*                                                                         *)
(* Rasters are small pixel grids.  A pixel is "none" (transparent) or the  *)
(* stroke style that painted it.  Pointer coordinates are lattice points   *)
(* of the canvas, the far edges included.                                  *)
(***************************************************************************)
EXTENDS Integers, Sequences, FiniteSets, TLC

\* ------------------------------------------------------------------ bounds
\* Most gestures (pointer-downs) of a session, per specification.
FreeGestures == 1
MachineGestures == 2
UndoGestures == 5
MoveGestures == 3
HalfGestures == 1
SizingGestures == 1
MoveUndoGestures == 3
\* Slots of the App (MAX_IMAGES of ./constants) and handler calls of a session.
MAX_IMAGES == 2
MaxCalls == 4

\* ------------------------------------------------------- inputs of the model
\* The absent value (null / undefined): a record no raster or rectangle equals.
NULL == [null |-> TRUE]
NONE == "none"

\* Natural size of the image being edited (image.base64 decoded).
NaturalSize == [width |-> 4, height |-> 2]
\* Sizes the canvas' parent element takes (clientWidth, clientHeight).
ContainerSizes == {<<4, 2>>, <<6, 3>>, <<3, 2>>}
InitialContainer == <<4, 2>>
\* The same, and containers collapsed to no height or no width.
SizingContainers == ContainerSizes \cup {<<4, 0>>, <<0, 2>>}
\* A canvas element without width/height attributes is 300x150: ratio 2:1.
DefaultCanvasSize == [width |-> 2, height |-> 1]
Tools == {"pen", "circle", "box", "eraser", "move"}
Colors == {"#ff0000"}
\* file.type of the uploaded file: "" when the browser cannot tell the type.
MimeTypes == {"image/png", ""}
\* Container and image sizes the contain fit is computed for.
FitSizes == {<<21, 19>>, <<29, 7>>, <<4, 2>>, <<3, 2>>, <<1, 3>>, <<19, 21>>,
             <<640, 480>>, <<1000, 333>>}
\* Files the user picks or drops (name, file.type).
Files == {[name |-> "a.png", type |-> "image/png"], [name |-> "b", type |-> ""]}

\* ----------------------------------------------------------------- rasters
Abs(n) == IF n < 0 THEN -n ELSE n
Min(a, b) == IF a < b THEN a ELSE b
Max(a, b) == IF a > b THEN a ELSE b

Cells(w, h) == (0 .. w - 1) \X (0 .. h - 1)

\* new ImageData / a freshly sized canvas: every pixel transparent.
Blank(w, h) == [width |-> w, height |-> h, data |-> [p \in Cells(w, h) |-> NONE]]

\* ctx.getImageData(x, y, w, h)
GetImageData(cv, x, y, w, h) ==
    [width |-> w, height |-> h,
     data |-> [p \in Cells(w, h) |->
                 IF <<p[1] + x, p[2] + y>> \in DOMAIN cv.data
                 THEN cv.data[<<p[1] + x, p[2] + y>>] ELSE NONE]]

\* ctx.putImageData(img, dx, dy): replaces pixels, no compositing.
PutImageData(cv, img, dx, dy) ==
    [cv EXCEPT !.data = [p \in DOMAIN cv.data |->
                 IF <<p[1] - dx, p[2] - dy>> \in DOMAIN img.data
                 THEN img.data[<<p[1] - dx, p[2] - dy>>] ELSE cv.data[p]]]

\* ctx.clearRect(x, y, w, h)
ClearRect(cv, x, y, w, h) ==
    [cv EXCEPT !.data = [p \in DOMAIN cv.data |->
                 IF p[1] >= x /\ p[1] < x + w /\ p[2] >= y /\ p[2] < y + h
                 THEN NONE ELSE cv.data[p]]]

\* Pixels a stroked straight segment a-b covers: the lattice points on it.
LinePixels(a, b) ==
    {p \in (Min(a.x, b.x) .. Max(a.x, b.x)) \X (Min(a.y, b.y) .. Max(a.y, b.y)) :
        (p[1] - a.x) * (b.y - a.y) = (p[2] - a.y) * (b.x - a.x)}

\* Outline of ctx.strokeRect(x, y, w, h); w and h may be negative.
RectPixels(x, y, w, h) ==
    IF w = 0 /\ h = 0 THEN {}
    ELSE LET a == [x |-> x, y |-> y]
             b == [x |-> x + w, y |-> y]
             c == [x |-> x + w, y |-> y + h]
             d == [x |-> x, y |-> y + h]
         IN LinePixels(a, b) \cup LinePixels(b, c) \cup LinePixels(c, d) \cup LinePixels(d, a)

\* Outline of ctx.arc(c.x, c.y, sqrt(r2), 0, 2*PI) on a canvas cv.
ArcPixels(cv, c, r2) ==
    {p \in DOMAIN cv.data : (p[1] - c.x) * (p[1] - c.x) + (p[2] - c.y) * (p[2] - c.y) = r2}

\* The context's current path, as far as stroking it goes: the point the
\* next lineTo starts from and the pixels the segments so far cover.  (An
\* arc is stroked at once, by the circle tool, and is not kept.)
EmptyPath == [last |-> NULL, covered |-> {}]
MoveTo(pos) == [last |-> pos, covered |-> {}]
LineTo(path, pos) ==
    IF path.last = NULL THEN [path EXCEPT !.last = pos]
    ELSE [last |-> pos, covered |-> path.covered \cup LinePixels(path.last, pos)]

\* Painting a set of pixels with the context's stroke style and
\* globalCompositeOperation.
Paint(cv, pixels, c) ==
    [cv EXCEPT !.data = [p \in DOMAIN cv.data |->
                 IF p \in pixels
                 THEN (IF c.gco = "destination-out" THEN NONE ELSE c.strokeStyle)
                 ELSE cv.data[p]]]

\* A 2d context as canvas.getContext('2d') gives it after the canvas is
\* (re)sized: default state.
DefaultCtx == [gco |-> "source-over", strokeStyle |-> "#000000", lineWidth |-> 1,
               path |-> EmptyPath]


\* ------------------------------------------------------- binary64 arithmetic
\* JavaScript numbers are IEEE 754 binary64: every division, product and
\* difference is rounded to 53 significant bits, ties to even.  Naturals of
\* any size are sequences of limbs, least significant first, without leading
\* zero limbs (<<>> is 0); a product of two limbs stays within TLC's integers.
MantissaBits == 53
Base == 2^15

RECURSIVE BitsOf(_)
BitsOf(n) == IF n = 0 THEN 0 ELSE 1 + BitsOf(n \div 2)

LimbBits == BitsOf(Base - 1)

RECURSIVE BigOf(_)
BigOf(n) == IF n = 0 THEN <<>> ELSE <<n % Base>> \o BigOf(n \div Base)

Limb(a, i) == IF i \in DOMAIN a THEN a[i] ELSE 0

RECURSIVE Trim(_)
Trim(a) == IF a # <<>> /\ a[Len(a)] = 0 THEN Trim(SubSeq(a, 1, Len(a) - 1)) ELSE a

BitLength(a) == IF a = <<>> THEN 0 ELSE (Len(a) - 1) * LimbBits + BitsOf(a[Len(a)])

\* Bit i of a, bit 1 the least significant.
Bit(a, i) == (Limb(a, (i - 1) \div LimbBits + 1) \div 2^((i - 1) % LimbBits)) % 2

\* a * 2^k and floor(a / 2^k), k >= 0.
ShiftLeft(a, k) ==
    LET limbs == k \div LimbBits
        p == 2^(k % LimbBits)
    IN IF a = <<>> THEN <<>>
       ELSE [i \in 1 .. limbs |-> 0] \o
            Trim([i \in 1 .. Len(a) + 1 |->
                    (Limb(a, i) % (Base \div p)) * p + Limb(a, i - 1) \div (Base \div p)])

ShiftRight(a, k) ==
    LET limbs == k \div LimbBits
        p == 2^(k % LimbBits)
        x == IF limbs >= Len(a) THEN <<>> ELSE SubSeq(a, limbs + 1, Len(a))
    IN Trim([i \in 1 .. Len(x) |-> x[i] \div p + (Limb(x, i + 1) % p) * (Base \div p)])

\* -1, 0 or 1 as a < b, a = b, a > b, from limb i down.
RECURSIVE CompareFrom(_, _, _)
CompareFrom(a, b, i) ==
    IF i = 0 THEN 0
    ELSE IF Limb(a, i) > Limb(b, i) THEN 1
    ELSE IF Limb(a, i) < Limb(b, i) THEN -1
    ELSE CompareFrom(a, b, i - 1)

Compare(a, b) == CompareFrom(a, b, Max(Len(a), Len(b)))

RECURSIVE AddFrom(_, _, _, _)
AddFrom(a, b, i, carry) ==
    IF i > Len(a) /\ i > Len(b) THEN (IF carry = 1 THEN <<1>> ELSE <<>>)
    ELSE LET t == Limb(a, i) + Limb(b, i) + carry
         IN <<t % Base>> \o AddFrom(a, b, i + 1, t \div Base)

Add(a, b) == AddFrom(a, b, 1, 0)

\* a - b for a >= b.
RECURSIVE SubtractFrom(_, _, _, _)
SubtractFrom(a, b, i, borrow) ==
    IF i > Len(a) THEN <<>>
    ELSE LET t == Limb(a, i) - Limb(b, i) - borrow
         IN <<IF t < 0 THEN t + Base ELSE t>> \o
            SubtractFrom(a, b, i + 1, IF t < 0 THEN 1 ELSE 0)

Subtract(a, b) == Trim(SubtractFrom(a, b, 1, 0))

\* a * m for a limb m.
RECURSIVE TimesLimbFrom(_, _, _, _)
TimesLimbFrom(a, m, i, carry) ==
    IF i > Len(a) THEN (IF carry = 0 THEN <<>> ELSE <<carry>>)
    ELSE LET t == a[i] * m + carry
         IN <<t % Base>> \o TimesLimbFrom(a, m, i + 1, t \div Base)

TimesLimb(a, m) == Trim(TimesLimbFrom(a, m, 1, 0))

RECURSIVE Multiply(_, _)
Multiply(a, b) ==
    IF b = <<>> THEN <<>>
    ELSE LET upper == Multiply(a, Tail(b))
         IN Add(TimesLimb(a, b[1]), IF upper = <<>> THEN <<>> ELSE <<0>> \o upper)

\* One step of long division by d: the next lower quotient bit, s being
\* the quotient and remainder so far.
DivideStep(s, d) ==
    LET r2 == ShiftLeft(s.r, 1)
        fits == Compare(r2, d) >= 0
        q2 == ShiftLeft(s.q, 1)
    IN [q |-> IF fits THEN Add(q2, <<1>>) ELSE q2,
        r |-> IF fits THEN Subtract(r2, d) ELSE r2]

\* n steps; once the remainder is zero the bits that follow are zeros.
RECURSIVE DivideSteps(_, _, _)
DivideSteps(s, d, n) ==
    IF n = 0 THEN s
    ELSE IF n = 1 THEN DivideStep(s, d)
    ELSE LET half == DivideSteps(s, d, n \div 2)
         IN IF half.r = <<>> THEN [q |-> ShiftLeft(half.q, n - n \div 2), r |-> <<>>]
            ELSE DivideSteps(half, d, n - n \div 2)

\* Quotient and remainder of n * 2^k by d, for n < 2 * d.
Divide(n, d, k) ==
    LET whole == Compare(n, d) >= 0
    IN DivideSteps([q |-> IF whole THEN <<1>> ELSE <<>>,
                    r |-> IF whole THEN Subtract(n, d) ELSE n], d, k)

\* A finite number: (-1)^neg * m * 2^e with m of exactly MantissaBits bits,
\* or zero.  (The sizes of the model stay far from subnormals and overflow.)
Zero == [neg |-> FALSE, m |-> <<>>, e |-> 0]

\* The number nearest to big * 2^e, or to a value above it by less than one
\* unit of big when sticky; ties to even.
RoundToDouble(neg, big, e, sticky) ==
    IF big = <<>> THEN Zero
    ELSE LET k == BitLength(big) - MantissaBits
         IN IF k <= 0 THEN [neg |-> neg, m |-> ShiftLeft(big, 0 - k), e |-> e + k]
            ELSE LET kept == ShiftRight(big, k)
                     half == Bit(big, k) = 1
                     below == sticky \/ \E i \in 1 .. k - 1 : Bit(big, i) = 1
                     up == half /\ (below \/ Bit(kept, 1) = 1)
                     m1 == IF up THEN Add(kept, <<1>>) ELSE kept
                 IN IF BitLength(m1) > MantissaBits
                    THEN [neg |-> neg, m |-> ShiftRight(m1, 1), e |-> e + k + 1]
                    ELSE [neg |-> neg, m |-> m1, e |-> e + k]

\* An integer (clientWidth, naturalWidth, ...) as a number.
Double(n) == RoundToDouble(n < 0, BigOf(Abs(n)), 0, FALSE)

\* x / y, y not zero.
DoubleDivide(x, y) ==
    IF x.m = <<>> THEN Zero
    ELSE LET d == Divide(x.m, y.m, MantissaBits + 1)
         IN RoundToDouble(x.neg # y.neg, d.q, x.e - y.e - (MantissaBits + 1), d.r # <<>>)

\* x * y
DoubleTimes(x, y) == RoundToDouble(x.neg # y.neg, Multiply(x.m, y.m), x.e + y.e, FALSE)

\* x - y for x and y not negative.
DoubleMinus(x, y) ==
    LET e == Min(x.e, y.e)
        X == ShiftLeft(x.m, x.e - e)
        Y == ShiftLeft(y.m, y.e - e)
    IN IF Compare(X, Y) >= 0 THEN RoundToDouble(FALSE, Subtract(X, Y), e, FALSE)
       ELSE RoundToDouble(TRUE, Subtract(Y, X), e, FALSE)

\* x > y
DoubleGreater(x, y) ==
    LET e == Min(x.e, y.e)
        c == Compare(ShiftLeft(x.m, x.e - e), ShiftLeft(y.m, y.e - e))
    IN IF x.neg /\ y.neg THEN c < 0
       ELSE IF x.neg THEN FALSE
       ELSE IF y.neg THEN x.m # <<>> \/ y.m # <<>>
       ELSE c > 0

\* ---------------------------------------------------------------- the state
VARIABLES
    imgState,           \* "loading" | "complete" | "broken" (complete, naturalWidth 0)
    container,          \* <<clientWidth, clientHeight>> of the canvas' parent
    canvas,             \* the canvas bitmap: [width, height, data]
    ctx,                \* state of the canvas' 2d context
    canvasPosition,     \* [top, left], each a rational [n, d]
    isDrawing, isSelecting, isMoving,
    startCoords,        \* [x, y]
    snapshot,           \* NULL or an ImageData
    selectionRect,      \* NULL or [x, y, width, height]
    selectedImageData,  \* NULL or an ImageData
    moveStartOffset,    \* [x, y]
    drawingTool, drawingColor,
    history,            \* sequence of ImageData; history[i + 1] is the source's history[i]
    historyIndex,       \* 0-based as in the source, -1 when empty
    gestures,           \* pointer-downs so far (bounds the session)
    editing,            \* the modal is mounted (App's editingImageId is this image)
    saved,              \* NULL or the raster handed to onSave
    mimeType,           \* image.mimeType: a media type, or "" (file.type unknown)
    saveOutcome,        \* how the last handleSave ended: "none" (not called yet),
                        \* "delivered" (onSave called), "threw", "returned" (bare return)
    images,             \* App's images state: the slots, images[i].id = i
    calls,              \* App's handleImageChange and handleImageRemove calls so far,
                        \* in call order; a change call holds its FileReader
    natural,            \* [width, height]: img.naturalWidth, img.naturalHeight
    rendered            \* NULL, or setupCanvas' renderedWidth, renderedHeight,
                        \* renderedLeft and renderedTop as the numbers they are

vars == <<imgState, container, canvas, ctx, canvasPosition, isDrawing, isSelecting,
          isMoving, startCoords, snapshot, selectionRect, selectedImageData,
          moveStartOffset, drawingTool, drawingColor, history, historyIndex, gestures,
          editing, saved, mimeType, saveOutcome, images, calls, natural, rendered>>

slotVars == <<images, calls>>
fitVars == <<natural, rendered>>

gestureVars == <<isDrawing, isSelecting, isMoving, startCoords, snapshot,
                 selectionRect, selectedImageData, moveStartOffset>>

\* The fields setupCanvas and saveState work on, as one record.
Sizing == [canvas |-> canvas, ctx |-> ctx, history |-> history,
           historyIndex |-> historyIndex, canvasPosition |-> canvasPosition]

\* ------------------------------------------------------------- setupCanvas
Rat(n, d) == [n |-> n, d |-> d]
Floor(q) == q.n \div q.d

\* Lines 55-75: the contain fit of the image in its container.  Widths and
\* heights are exact rationals; x / 0 is Infinity or NaN and compares false.
Rendered(cont, nat) ==
    LET Cw == cont[1]
        Ch == cont[2]
        Iw == nat.width
        Ih == nat.height
    IN IF Ch > 0 /\ Iw * Ch > Cw * Ih
       THEN [width |-> Rat(Cw, 1), height |-> Rat(Cw * Ih, Iw),
             left |-> Rat(0, 1), top |-> Rat(Ch * Iw - Cw * Ih, 2 * Iw)]
       ELSE [height |-> Rat(Ch, 1), width |-> Rat(Ch * Iw, Ih),
             left |-> Rat(Cw * Ih - Ch * Iw, 2 * Ih), top |-> Rat(0, 1)]

\* Lines 55-75 in the numbers of JavaScript, for a container and an image of
\* positive sizes.  (For the sizes of the editing sessions every quotient
\* and product is exact, and this is Rendered.)
RenderedDouble(cont, nat) ==
    LET containerWidth == Double(cont[1])
        containerHeight == Double(cont[2])
        imageAspectRatio == DoubleDivide(Double(nat.width), Double(nat.height))
        containerAspectRatio == DoubleDivide(containerWidth, containerHeight)
    IN IF DoubleGreater(imageAspectRatio, containerAspectRatio)
       THEN LET renderedHeight == DoubleDivide(containerWidth, imageAspectRatio)
            IN [width |-> containerWidth, height |-> renderedHeight,
                left |-> Zero,
                top |-> DoubleDivide(DoubleMinus(containerHeight, renderedHeight), Double(2))]
       ELSE LET renderedWidth == DoubleTimes(containerHeight, imageAspectRatio)
            IN [height |-> containerHeight, width |-> renderedWidth,
                left |-> DoubleDivide(DoubleMinus(containerWidth, renderedWidth), Double(2)),
                top |-> Zero]

\* ctx.drawImage(src, 0, 0, rw, rh) onto a cleared canvas: each canvas pixel
\* takes the source pixel its centre falls on.
DrawImageScaled(cv, src, rw, rh) ==
    [cv EXCEPT !.data = [p \in DOMAIN cv.data |->
        LET sx == Min(((2 * p[1] + 1) * src.width * rw.d) \div (2 * rw.n), src.width - 1)
            sy == Min(((2 * p[2] + 1) * src.height * rh.d) \div (2 * rh.n), src.height - 1)
        IN src.data[<<sx, sy>>]]]

\* history[historyIndex], undefined when out of range.
EntryAt(h, i) == IF i >= 0 /\ i < Len(h) THEN h[i + 1] ELSE NULL

SetupCanvas(s, cont, img) ==
    IF img # "complete" THEN s
    ELSE
      LET r == Rendered(cont, NaturalSize)
          lastKnownState == EntryAt(s.history, s.historyIndex)
          differs == \/ s.canvas.width * r.width.d # r.width.n
                     \/ s.canvas.height * r.height.d # r.height.n
          fresh == Blank(Floor(r.width), Floor(r.height))
          cv == IF ~differs THEN s.canvas
                ELSE IF lastKnownState = NULL THEN fresh
                ELSE DrawImageScaled(fresh, lastKnownState, r.width, r.height)
          first == Len(s.history) = 0 /\ cv.width > 0
      IN [canvas |-> cv,
          ctx |-> IF differs THEN DefaultCtx ELSE s.ctx,
          history |-> IF first THEN <<GetImageData(cv, 0, 0, cv.width, cv.height)>>
                      ELSE s.history,
          historyIndex |-> IF first THEN 0 ELSE s.historyIndex,
          canvasPosition |-> [top |-> r.top, left |-> r.left]]

\* Lines 107-123: setupCanvas is rebuilt whenever history or historyIndex
\* changes, and the effect that depends on it then calls it when img.complete.
AfterRender(before, s, cont, img) ==
    IF img # "loading" /\ (s.history # before.history \/ s.historyIndex # before.historyIndex)
    THEN SetupCanvas(s, cont, img)
    ELSE s

\* ---------------------------------------------------------------- saveState
\* saveState appending to the whole history, the undone entries kept.
SaveStateNoTruncate(s) ==
    LET imageData == GetImageData(s.canvas, 0, 0, s.canvas.width, s.canvas.height)
    IN [s EXCEPT !.history = Append(s.history, imageData),
                 !.historyIndex = Len(s.history)]

\* Lines 35-44.
SaveState(s) ==
    LET newHistory == SubSeq(s.history, 1, s.historyIndex + 1)
        imageData == GetImageData(s.canvas, 0, 0, s.canvas.width, s.canvas.height)
    IN [s EXCEPT !.history = Append(newHistory, imageData),
                 !.historyIndex = Len(newHistory)]

\* Assigns the five sizing fields from a record.
SetSizing(s) ==
    /\ canvas' = s.canvas
    /\ ctx' = s.ctx
    /\ history' = s.history
    /\ historyIndex' = s.historyIndex
    /\ canvasPosition' = s.canvasPosition

\* ------------------------------------------------------- the App's image slots
\* src/App.tsx lines 13-19: a slot without an image.
EmptySlot(id) ==
    [id |-> id, file |-> NULL, base64 |-> NULL, annotatedBase64 |-> NULL, mimeType |-> NULL]

\* reader.readAsDataURL(file) (line 42): the data URL in reader.result once
\* the read has ended, up to and after its first comma.
ReadAsDataURL(file) ==
    <<[scheme |-> "data", mediaType |-> file.type, encoding |-> "base64"],
      [base64Of |-> file.name]>>

\* The slot reader.onloadend writes (lines 35-39).
Uploaded(id, file) ==
    LET base64String == ReadAsDataURL(file)[2]
    IN [id |-> id, file |-> file, base64 |-> base64String, annotatedBase64 |-> NULL,
        mimeType |-> file.type]

\* The modal's variables while the App runs without it.
ModalUntouched ==
    UNCHANGED <<imgState, container, canvas, ctx, canvasPosition, gestureVars,
                drawingTool, drawingColor, history, historyIndex, gestures, editing,
                saved, mimeType, saveOutcome, fitVars>>

\* handleImageChange (lines 32-43): a new FileReader starts reading the file;
\* the slots stay as they are until its loadend event.
HandleImageChange(id, file) ==
    /\ calls' = Append(calls, [op |-> "change", id |-> id, file |-> file, reading |-> TRUE])
    /\ UNCHANGED images
    /\ ModalUntouched

\* reader.onloadend (lines 34-41) of the reader started by call i.  Readers
\* are independent: their loadend events come in any order.
OnLoadEnd(i) ==
    /\ calls[i].op = "change" /\ calls[i].reading
    /\ images' = [k \in DOMAIN images |->
                    IF images[k].id = calls[i].id THEN Uploaded(calls[i].id, calls[i].file)
                    ELSE images[k]]
    /\ calls' = [calls EXCEPT ![i].reading = FALSE]
    /\ ModalUntouched

\* handleImageRemove (lines 45-53), from the Remove button, which a slot
\* shows while it has a base64 (src/components/ImageSlot.tsx line 67).
HandleImageRemove(id) ==
    /\ images[id].base64 # NULL
    /\ images' = [k \in DOMAIN images |->
                    IF images[k].id = id THEN EmptySlot(images[k].id) ELSE images[k]]
    /\ calls' = Append(calls, [op |-> "remove", id |-> id, file |-> NULL, reading |-> FALSE])
    /\ ModalUntouched

\* --------------------------------------------------------------------- Init
MountedWith(m) ==
    /\ imgState = "loading"
    /\ container = InitialContainer
    /\ canvas = Blank(DefaultCanvasSize.width, DefaultCanvasSize.height)
    /\ ctx = DefaultCtx
    /\ canvasPosition = [top |-> Rat(0, 1), left |-> Rat(0, 1)]
    /\ isDrawing = FALSE
    /\ isSelecting = FALSE
    /\ isMoving = FALSE
    /\ startCoords = [x |-> 0, y |-> 0]
    /\ snapshot = NULL
    /\ selectionRect = NULL
    /\ selectedImageData = NULL
    /\ moveStartOffset = [x |-> 0, y |-> 0]
    /\ drawingTool = "pen"
    /\ drawingColor = "#ff0000"
    /\ history = <<>>
    /\ historyIndex = -1
    /\ gestures = 0
    /\ editing = TRUE
    /\ saved = NULL
    /\ mimeType = m
    /\ saveOutcome = "none"
    /\ images = [i \in 1 .. MAX_IMAGES |->
                   IF i = 1 THEN Uploaded(1, CHOOSE f \in Files : f.type = m)
                   ELSE EmptySlot(i)]
    /\ calls = <<>>
    /\ natural = NaturalSize
    /\ rendered = NULL

\* The editor opened on an image whose media type is known.
Init == MountedWith("image/png")

\* ------------------------------------------------------- load, error, resize
\* The image's load event: the listener of line 114 runs setupCanvas; the
\* state it sets re-renders and the effect runs setupCanvas once more.
ImageLoad ==
    /\ editing
    /\ imgState = "loading"
    /\ imgState' = "complete"
    /\ LET s1 == SetupCanvas(Sizing, container, "complete")
       IN SetSizing(AfterRender(Sizing, s1, container, "complete"))
    /\ UNCHANGED <<gestures, editing, saved, mimeType, saveOutcome, slotVars, fitVars>>
    /\ UNCHANGED <<container, gestureVars, drawingTool, drawingColor>>

\* The image fails to decode: complete with naturalWidth 0; no listener runs.
ImageError ==
    /\ editing
    /\ imgState = "loading"
    /\ imgState' = "broken"
    /\ UNCHANGED <<gestures, editing, saved, mimeType, saveOutcome, slotVars, fitVars>>
    /\ UNCHANGED <<container, canvas, ctx, canvasPosition, gestureVars, drawingTool,
                   drawingColor, history, historyIndex>>

\* The window's resize event (line 117) with the container at a new size.
Resize(c) ==
    /\ editing
    /\ c # container
    /\ container' = c
    /\ LET s1 == SetupCanvas(Sizing, c, imgState)
       IN SetSizing(AfterRender(Sizing, s1, c, imgState))
    /\ UNCHANGED <<gestures, editing, saved, mimeType, saveOutcome, slotVars, fitVars>>
    /\ UNCHANGED <<imgState, gestureVars, drawingTool, drawingColor>>

\* ----------------------------------------------------------- pointer events
\* getMousePos: canvas-local coordinates of a mouse event.  A canvas without
\* area receives no mouse events.
Points(cv) == [x : 0 .. cv.width, y : 0 .. cv.height]
HasArea(cv) == cv.width > 0 /\ cv.height > 0

\* The hit test of line 156 with the rectangle's border counted as inside.
InsideOrOnBorder(pos, r) ==
    /\ r # NULL
    /\ pos.x >= r.x /\ pos.x <= r.x + r.width
    /\ pos.y >= r.y /\ pos.y <= r.y + r.height

\* The hit test of line 156: strictly inside the selection rectangle.
Inside(pos, r) ==
    /\ r # NULL
    /\ pos.x > r.x /\ pos.x < r.x + r.width
    /\ pos.y > r.y /\ pos.y < r.y + r.height

\* Lines 147-177.
StartDrawing(pos) ==
    /\ startCoords' = pos
    /\ snapshot' = GetImageData(canvas, 0, 0, canvas.width, canvas.height)
    /\ IF drawingTool = "move"
       THEN IF Inside(pos, selectionRect)
            THEN /\ isMoving' = TRUE
                 /\ selectedImageData' = GetImageData(canvas, selectionRect.x, selectionRect.y,
                                                      selectionRect.width, selectionRect.height)
                 /\ canvas' = ClearRect(canvas, selectionRect.x, selectionRect.y,
                                        selectionRect.width, selectionRect.height)
                 /\ moveStartOffset' = [x |-> pos.x - selectionRect.x,
                                        y |-> pos.y - selectionRect.y]
                 /\ UNCHANGED <<isDrawing, isSelecting, selectionRect, ctx>>
            ELSE /\ isSelecting' = TRUE
                 /\ selectionRect' = NULL
                 /\ UNCHANGED <<isDrawing, isMoving, selectedImageData, moveStartOffset,
                                canvas, ctx>>
       ELSE /\ isDrawing' = TRUE
            /\ ctx' = [gco |-> IF drawingTool = "eraser" THEN "destination-out"
                               ELSE "source-over",
                       strokeStyle |-> drawingColor,
                       lineWidth |-> IF drawingTool = "eraser" THEN 20 ELSE 5,
                       path |-> IF drawingTool \in {"pen", "eraser"}
                                THEN MoveTo(pos)
                                ELSE EmptyPath]
            /\ UNCHANGED <<isSelecting, isMoving, selectionRect, selectedImageData,
                           moveStartOffset, canvas>>
    /\ UNCHANGED <<imgState, container, canvasPosition, drawingTool, drawingColor,
                   history, historyIndex>>

\* onMouseDown (line 289).
PointerDown(pos) ==
    /\ editing
    /\ HasArea(canvas)
    /\ pos \in Points(canvas)
    /\ gestures' = gestures + 1
    /\ UNCHANGED <<editing, saved, mimeType, saveOutcome, slotVars, fitVars>>
    /\ StartDrawing(pos)

\* Lines 179-208; onMouseMove (line 290).
Draw(pos) ==
    /\ IF snapshot = NULL
       THEN UNCHANGED <<canvas, ctx>>
       ELSE LET base == PutImageData(canvas, snapshot, 0, 0)
            IN IF isDrawing
               THEN IF drawingTool \in {"pen", "eraser"}
                    THEN /\ ctx' = [ctx EXCEPT !.path = LineTo(@, pos)]
                         /\ canvas' = Paint(base, ctx'.path.covered, ctx)
                    ELSE IF drawingTool = "circle"
                    THEN /\ ctx' = [ctx EXCEPT !.path = EmptyPath]
                         /\ canvas' = Paint(base, ArcPixels(base, startCoords,
                                               (pos.x - startCoords.x) * (pos.x - startCoords.x)
                                             + (pos.y - startCoords.y) * (pos.y - startCoords.y)),
                                            ctx)
                    ELSE IF drawingTool = "box"
                    THEN /\ canvas' = Paint(base, RectPixels(startCoords.x, startCoords.y,
                                                             pos.x - startCoords.x,
                                                             pos.y - startCoords.y), ctx)
                         /\ UNCHANGED ctx
                    ELSE /\ canvas' = base
                         /\ UNCHANGED ctx
               ELSE IF isSelecting
               THEN /\ ctx' = [ctx EXCEPT !.strokeStyle = "#FFFFFF", !.lineWidth = 1]
                    /\ canvas' = Paint(base, RectPixels(startCoords.x, startCoords.y,
                                                        pos.x - startCoords.x,
                                                        pos.y - startCoords.y), ctx')
               ELSE IF isMoving /\ selectedImageData # NULL
               THEN /\ canvas' = PutImageData(base, selectedImageData,
                                              pos.x - moveStartOffset.x,
                                              pos.y - moveStartOffset.y)
                    /\ UNCHANGED ctx
               ELSE UNCHANGED <<canvas, ctx>>
    /\ UNCHANGED <<imgState, container, canvasPosition, gestureVars, drawingTool,
                   drawingColor, history, historyIndex>>

PointerMove(pos) ==
    /\ editing
    /\ HasArea(canvas)
    /\ pos \in Points(canvas)
    /\ Draw(pos)
    /\ UNCHANGED <<gestures, editing, saved, mimeType, saveOutcome, slotVars, fitVars>>

\* StopDrawing aborting a drawing gesture that rendered nothing: the flag is
\* cleared and no entry is committed when the canvas still equals the
\* pre-gesture snapshot.
StopDrawingSkipsEmpty(pos) ==
    /\ IF isDrawing /\ GetImageData(canvas, 0, 0, canvas.width, canvas.height) = snapshot
       THEN /\ isDrawing' = FALSE
            /\ ctx' = [ctx EXCEPT !.gco = "source-over"]
            /\ UNCHANGED <<isSelecting, isMoving, selectionRect, canvas, history,
                           historyIndex, canvasPosition>>
       ELSE IF isDrawing
       THEN /\ isDrawing' = FALSE
            /\ LET s1 == SaveState([Sizing EXCEPT !.ctx.gco = "source-over"])
               IN SetSizing(AfterRender(Sizing, s1, container, imgState))
            /\ UNCHANGED <<isSelecting, isMoving, selectionRect>>
       ELSE IF isSelecting
       THEN /\ isSelecting' = FALSE
            /\ selectionRect' = [x |-> Min(startCoords.x, pos.x),
                                 y |-> Min(startCoords.y, pos.y),
                                 width |-> Abs(pos.x - startCoords.x),
                                 height |-> Abs(pos.y - startCoords.y)]
            /\ UNCHANGED <<isDrawing, isMoving, canvas, ctx, history, historyIndex,
                           canvasPosition>>
       ELSE IF isMoving
       THEN /\ isMoving' = FALSE
            /\ SetSizing(AfterRender(Sizing, SaveState(Sizing), container, imgState))
            /\ UNCHANGED <<isDrawing, isSelecting, selectionRect>>
       ELSE UNCHANGED <<isDrawing, isSelecting, isMoving, selectionRect, canvas, ctx,
                        history, historyIndex, canvasPosition>>
    /\ UNCHANGED <<imgState, container, startCoords, snapshot, selectedImageData,
                   moveStartOffset, drawingTool, drawingColor>>

\* StopDrawing moving the selection rectangle along with the pixels at the
\* end of a moving gesture.
StopDrawingRectFollows(pos) ==
    /\ IF isDrawing
       THEN /\ isDrawing' = FALSE
            /\ LET s1 == SaveState([Sizing EXCEPT !.ctx.gco = "source-over"])
               IN SetSizing(AfterRender(Sizing, s1, container, imgState))
            /\ UNCHANGED <<isSelecting, isMoving, selectionRect>>
       ELSE IF isSelecting
       THEN /\ isSelecting' = FALSE
            /\ selectionRect' = [x |-> Min(startCoords.x, pos.x),
                                 y |-> Min(startCoords.y, pos.y),
                                 width |-> Abs(pos.x - startCoords.x),
                                 height |-> Abs(pos.y - startCoords.y)]
            /\ UNCHANGED <<isDrawing, isMoving, canvas, ctx, history, historyIndex,
                           canvasPosition>>
       ELSE IF isMoving
       THEN /\ isMoving' = FALSE
            /\ SetSizing(AfterRender(Sizing, SaveState(Sizing), container, imgState))
            /\ selectionRect' = IF selectionRect = NULL THEN NULL
                                ELSE [selectionRect EXCEPT
                                        !.x = pos.x - moveStartOffset.x,
                                        !.y = pos.y - moveStartOffset.y]
            /\ UNCHANGED <<isDrawing, isSelecting>>
       ELSE UNCHANGED <<isDrawing, isSelecting, isMoving, selectionRect, canvas, ctx,
                        history, historyIndex, canvasPosition>>
    /\ UNCHANGED <<imgState, container, startCoords, snapshot, selectedImageData,
                   moveStartOffset, drawingTool, drawingColor>>

\* StopDrawing committing at the end of a selecting gesture as well.
StopDrawingCommitsSelection(pos) ==
    /\ IF isDrawing
       THEN /\ isDrawing' = FALSE
            /\ LET s1 == SaveState([Sizing EXCEPT !.ctx.gco = "source-over"])
               IN SetSizing(AfterRender(Sizing, s1, container, imgState))
            /\ UNCHANGED <<isSelecting, isMoving, selectionRect>>
       ELSE IF isSelecting
       THEN /\ isSelecting' = FALSE
            /\ selectionRect' = [x |-> Min(startCoords.x, pos.x),
                                 y |-> Min(startCoords.y, pos.y),
                                 width |-> Abs(pos.x - startCoords.x),
                                 height |-> Abs(pos.y - startCoords.y)]
            /\ SetSizing(AfterRender(Sizing, SaveState(Sizing), container, imgState))
            /\ UNCHANGED <<isDrawing, isMoving>>
       ELSE IF isMoving
       THEN /\ isMoving' = FALSE
            /\ SetSizing(AfterRender(Sizing, SaveState(Sizing), container, imgState))
            /\ UNCHANGED <<isDrawing, isSelecting, selectionRect>>
       ELSE UNCHANGED <<isDrawing, isSelecting, isMoving, selectionRect, canvas, ctx,
                        history, historyIndex, canvasPosition>>
    /\ UNCHANGED <<imgState, container, startCoords, snapshot, selectedImageData,
                   moveStartOffset, drawingTool, drawingColor>>

\* StopDrawing storing the anchor and the signed extent, lines 221-226
\* without Math.min and Math.abs.
StopDrawingRawRect(pos) ==
    /\ IF isDrawing
       THEN /\ isDrawing' = FALSE
            /\ LET s1 == SaveState([Sizing EXCEPT !.ctx.gco = "source-over"])
               IN SetSizing(AfterRender(Sizing, s1, container, imgState))
            /\ UNCHANGED <<isSelecting, isMoving, selectionRect>>
       ELSE IF isSelecting
       THEN /\ isSelecting' = FALSE
            /\ selectionRect' = [x |-> startCoords.x,
                                 y |-> startCoords.y,
                                 width |-> pos.x - startCoords.x,
                                 height |-> pos.y - startCoords.y]
            /\ UNCHANGED <<isDrawing, isMoving, canvas, ctx, history, historyIndex,
                           canvasPosition>>
       ELSE IF isMoving
       THEN /\ isMoving' = FALSE
            /\ SetSizing(AfterRender(Sizing, SaveState(Sizing), container, imgState))
            /\ UNCHANGED <<isDrawing, isSelecting, selectionRect>>
       ELSE UNCHANGED <<isDrawing, isSelecting, isMoving, selectionRect, canvas, ctx,
                        history, historyIndex, canvasPosition>>
    /\ UNCHANGED <<imgState, container, startCoords, snapshot, selectedImageData,
                   moveStartOffset, drawingTool, drawingColor>>

\* StopDrawing without line 215: the composite operation of the gesture stays.
StopDrawingKeepsComposite(pos) ==
    /\ IF isDrawing
       THEN /\ isDrawing' = FALSE
            /\ LET s1 == SaveState(Sizing)
               IN SetSizing(AfterRender(Sizing, s1, container, imgState))
            /\ UNCHANGED <<isSelecting, isMoving, selectionRect>>
       ELSE IF isSelecting
       THEN /\ isSelecting' = FALSE
            /\ selectionRect' = [x |-> Min(startCoords.x, pos.x),
                                 y |-> Min(startCoords.y, pos.y),
                                 width |-> Abs(pos.x - startCoords.x),
                                 height |-> Abs(pos.y - startCoords.y)]
            /\ UNCHANGED <<isDrawing, isMoving, canvas, ctx, history, historyIndex,
                           canvasPosition>>
       ELSE IF isMoving
       THEN /\ isMoving' = FALSE
            /\ SetSizing(AfterRender(Sizing, SaveState(Sizing), container, imgState))
            /\ UNCHANGED <<isDrawing, isSelecting, selectionRect>>
       ELSE UNCHANGED <<isDrawing, isSelecting, isMoving, selectionRect, canvas, ctx,
                        history, historyIndex, canvasPosition>>
    /\ UNCHANGED <<imgState, container, startCoords, snapshot, selectedImageData,
                   moveStartOffset, drawingTool, drawingColor>>

\* Lines 210-231.
StopDrawing(pos) ==
    /\ IF isDrawing
       THEN /\ isDrawing' = FALSE
            /\ LET s1 == SaveState([Sizing EXCEPT !.ctx.gco = "source-over"])
               IN SetSizing(AfterRender(Sizing, s1, container, imgState))
            /\ UNCHANGED <<isSelecting, isMoving, selectionRect>>
       ELSE IF isSelecting
       THEN /\ isSelecting' = FALSE
            /\ selectionRect' = [x |-> Min(startCoords.x, pos.x),
                                 y |-> Min(startCoords.y, pos.y),
                                 width |-> Abs(pos.x - startCoords.x),
                                 height |-> Abs(pos.y - startCoords.y)]
            /\ UNCHANGED <<isDrawing, isMoving, canvas, ctx, history, historyIndex,
                           canvasPosition>>
       ELSE IF isMoving
       THEN /\ isMoving' = FALSE
            /\ SetSizing(AfterRender(Sizing, SaveState(Sizing), container, imgState))
            /\ UNCHANGED <<isDrawing, isSelecting, selectionRect>>
       ELSE UNCHANGED <<isDrawing, isSelecting, isMoving, selectionRect, canvas, ctx,
                        history, historyIndex, canvasPosition>>
    /\ UNCHANGED <<imgState, container, startCoords, snapshot, selectedImageData,
                   moveStartOffset, drawingTool, drawingColor>>

\* onMouseUp (line 291).
PointerUp(pos) ==
    /\ editing
    /\ HasArea(canvas)
    /\ pos \in Points(canvas)
    /\ StopDrawing(pos)
    /\ UNCHANGED <<gestures, editing, saved, mimeType, saveOutcome, slotVars, fitVars>>

\* onMouseLeave (line 292).
PointerLeave(pos) ==
    /\ editing
    /\ HasArea(canvas)
    /\ pos \in Points(canvas)
    /\ StopDrawing(pos)
    /\ UNCHANGED <<gestures, editing, saved, mimeType, saveOutcome, slotVars, fitVars>>

\* ------------------------------------------------------------- toolbar events
\* HandleUndo with the guard of line 134 off by one (historyIndex < 0).
HandleUndoOffByOne ==
    /\ editing
    /\ IF historyIndex < 0
       THEN UNCHANGED <<canvas, ctx, history, historyIndex, canvasPosition, selectionRect>>
       ELSE LET newIndex == historyIndex - 1
                s1 == [Sizing EXCEPT !.historyIndex = newIndex,
                                     !.canvas = IF newIndex >= 0
                                                THEN PutImageData(canvas, history[newIndex + 1], 0, 0)
                                                ELSE canvas]
            IN /\ SetSizing(AfterRender(Sizing, s1, container, imgState))
               /\ selectionRect' = NULL
    /\ UNCHANGED <<gestures, editing, saved, mimeType, saveOutcome, slotVars, fitVars>>
    /\ UNCHANGED <<imgState, container, isDrawing, isSelecting, isMoving, startCoords,
                   snapshot, selectedImageData, moveStartOffset, drawingTool, drawingColor>>

\* HandleUndo repainting with the entry it leaves (history[historyIndex])
\* instead of the one it moves to.
HandleUndoStaleEntry ==
    /\ editing
    /\ IF historyIndex <= 0
       THEN UNCHANGED <<canvas, ctx, history, historyIndex, canvasPosition, selectionRect>>
       ELSE LET newIndex == historyIndex - 1
                prevState == history[historyIndex + 1]
                s1 == [Sizing EXCEPT !.historyIndex = newIndex,
                                     !.canvas = PutImageData(canvas, prevState, 0, 0)]
            IN /\ SetSizing(AfterRender(Sizing, s1, container, imgState))
               /\ selectionRect' = NULL
    /\ UNCHANGED <<gestures, editing, saved, mimeType, saveOutcome, slotVars, fitVars>>
    /\ UNCHANGED <<imgState, container, isDrawing, isSelecting, isMoving, startCoords,
                   snapshot, selectedImageData, moveStartOffset, drawingTool, drawingColor>>

\* HandleUndo without line 144: the selection rectangle survives the undo.
HandleUndoKeepsSelection ==
    /\ editing
    /\ IF historyIndex <= 0
       THEN UNCHANGED <<canvas, ctx, history, historyIndex, canvasPosition, selectionRect>>
       ELSE LET newIndex == historyIndex - 1
                prevState == history[newIndex + 1]
                s1 == [Sizing EXCEPT !.historyIndex = newIndex,
                                     !.canvas = PutImageData(canvas, prevState, 0, 0)]
            IN /\ SetSizing(AfterRender(Sizing, s1, container, imgState))
               /\ UNCHANGED selectionRect
    /\ UNCHANGED <<gestures, editing, saved, mimeType, saveOutcome, slotVars, fitVars>>
    /\ UNCHANGED <<imgState, container, isDrawing, isSelecting, isMoving, startCoords,
                   snapshot, selectedImageData, moveStartOffset, drawingTool, drawingColor>>

\* Lines 133-145.
HandleUndo ==
    /\ editing
    /\ IF historyIndex <= 0
       THEN UNCHANGED <<canvas, ctx, history, historyIndex, canvasPosition, selectionRect>>
       ELSE LET newIndex == historyIndex - 1
                prevState == history[newIndex + 1]
                s1 == [Sizing EXCEPT !.historyIndex = newIndex,
                                     !.canvas = PutImageData(canvas, prevState, 0, 0)]
            IN /\ SetSizing(AfterRender(Sizing, s1, container, imgState))
               /\ selectionRect' = NULL
    /\ UNCHANGED <<gestures, editing, saved, mimeType, saveOutcome, slotVars, fitVars>>
    /\ UNCHANGED <<imgState, container, isDrawing, isSelecting, isMoving, startCoords,
                   snapshot, selectedImageData, moveStartOffset, drawingTool, drawingColor>>

\* Line 299.
SetTool(t) ==
    /\ editing
    /\ drawingTool' = t
    /\ UNCHANGED <<gestures, editing, saved, mimeType, saveOutcome, slotVars, fitVars>>
    /\ UNCHANGED <<imgState, container, canvas, ctx, canvasPosition, gestureVars,
                   drawingColor, history, historyIndex>>

\* Line 303.
SetColor(c) ==
    /\ editing
    /\ drawingColor' = c
    /\ UNCHANGED <<gestures, editing, saved, mimeType, saveOutcome, slotVars, fitVars>>
    /\ UNCHANGED <<imgState, container, canvas, ctx, canvasPosition, gestureVars,
                   drawingTool, history, historyIndex>>

\* Composite drawing the canvas at the origin at its own size, unscaled.
CompositeUnscaled(cv, img) ==
    LET nw == IF img = "complete" THEN NaturalSize.width ELSE 0
        nh == IF img = "complete" THEN NaturalSize.height ELSE 0
    IN [width |-> nw, height |-> nh,
        data |-> [p \in Cells(nw, nh) |->
            IF p \in DOMAIN cv.data /\ cv.data[p] # NONE THEN cv.data[p] ELSE "image"]]

\* Lines 238-251: the image at natural size with the canvas drawn over it,
\* scaled to the natural size.  An image that is not complete has natural
\* size 0x0.
Composite(cv, img) ==
    LET nw == IF img = "complete" THEN NaturalSize.width ELSE 0
        nh == IF img = "complete" THEN NaturalSize.height ELSE 0
    IN [width |-> nw, height |-> nh,
        data |-> [p \in Cells(nw, nh) |->
            LET sx == Min(((2 * p[1] + 1) * cv.width) \div (2 * nw), cv.width - 1)
                sy == Min(((2 * p[2] + 1) * cv.height) \div (2 * nh), cv.height - 1)
            IN IF cv.data[<<sx, sy>>] = NONE THEN "image" ELSE cv.data[<<sx, sy>>]]]

\* HandleSave compositing the history entry at the cursor instead of the
\* canvas.
HandleSaveFromHistory ==
    /\ editing
    /\ IF mimeType = ""
       THEN /\ saveOutcome' = "returned"
            /\ UNCHANGED <<saved, editing>>
       ELSE IF imgState = "broken" \/ ~HasArea(canvas)
       THEN /\ saveOutcome' = "threw"
            /\ UNCHANGED <<saved, editing>>
       ELSE /\ saved' = Composite(IF EntryAt(history, historyIndex) # NULL
                                  THEN EntryAt(history, historyIndex) ELSE canvas,
                                  imgState)
            /\ saveOutcome' = "delivered"
            /\ editing' = FALSE
    /\ UNCHANGED <<imgState, container, canvas, ctx, canvasPosition, gestureVars,
                   drawingTool, drawingColor, history, historyIndex, gestures, mimeType, slotVars, fitVars>>

\* Lines 233-253, then App's handleSaveAnnotation (src/App.tsx lines 55-62),
\* which unmounts the modal.  Without a media type the handler returns at
\* line 236.  drawImage throws on a broken image and on a canvas without
\* area, which ends the handler before onSave.
HandleSave ==
    /\ editing
    /\ IF mimeType = ""
       THEN /\ saveOutcome' = "returned"
            /\ UNCHANGED <<saved, editing>>
       ELSE IF imgState = "broken" \/ ~HasArea(canvas)
       THEN /\ saveOutcome' = "threw"
            /\ UNCHANGED <<saved, editing>>
       ELSE /\ saved' = Composite(canvas, imgState)
            /\ saveOutcome' = "delivered"
            /\ editing' = FALSE
    /\ UNCHANGED <<imgState, container, canvas, ctx, canvasPosition, gestureVars,
                   drawingTool, drawingColor, history, historyIndex, gestures, mimeType, slotVars, fitVars>>

\* ------------------------------------------------------------ specifications
\* The pointer positions events are tried at: the canvas' diagonal.
Diagonal == {[x |-> 0, y |-> 0], [x |-> 1, y |-> 1], [x |-> 2, y |-> 2]}

\* The positions nearest the origin: enough for a gesture that draws.
NearPoints == {[x |-> 0, y |-> 0], [x |-> 1, y |-> 1]}

\* The editor just mounted, every event free to arrive at any time.
Next ==
    \/ ImageLoad
    \/ ImageError
    \/ \E c \in ContainerSizes : Resize(c)
    \/ \E pos \in NearPoints : gestures < FreeGestures /\ PointerDown(pos)
    \/ \E pos \in NearPoints : PointerMove(pos)
    \/ \E pos \in NearPoints : PointerUp(pos)
    \/ \E pos \in NearPoints : PointerLeave(pos)
    \/ HandleUndo
    \/ \E t \in Tools : SetTool(t)
    \/ \E c \in Colors : SetColor(c)
    \/ HandleSave

Spec == Init /\ [][Next]_vars

\* The editor opened on an upload of any media type, the empty one included.
InitUpload == \E m \in MimeTypes : MountedWith(m)

SpecSave == InitUpload /\ [][Next]_vars

\* The editor once the image has loaded in the initial container.
LoadedIn(cont) ==
    LET s == SetupCanvas([canvas |-> Blank(DefaultCanvasSize.width, DefaultCanvasSize.height),
                          ctx |-> DefaultCtx, history |-> <<>>, historyIndex |-> -1,
                          canvasPosition |-> [top |-> Rat(0, 1), left |-> Rat(0, 1)]],
                         cont, "complete")
    IN /\ imgState = "complete"
       /\ container = cont
       /\ canvas = s.canvas
       /\ ctx = s.ctx
       /\ canvasPosition = s.canvasPosition
       /\ history = s.history
       /\ historyIndex = s.historyIndex
       /\ isDrawing = FALSE
       /\ isSelecting = FALSE
       /\ isMoving = FALSE
       /\ startCoords = [x |-> 0, y |-> 0]
       /\ snapshot = NULL
       /\ selectionRect = NULL
       /\ selectedImageData = NULL
       /\ moveStartOffset = [x |-> 0, y |-> 0]
       /\ drawingTool = "pen"
       /\ drawingColor = "#ff0000"
       /\ gestures = 0
       /\ editing = TRUE
       /\ saved = NULL
       /\ mimeType = "image/png"
       /\ saveOutcome = "none"
       /\ images = [i \in 1 .. MAX_IMAGES |->
                      IF i = 1 THEN Uploaded(1, CHOOSE f \in Files : f.type = "image/png")
                      ELSE EmptySlot(i)]
       /\ calls = <<>>
       /\ natural = NaturalSize
       /\ rendered = NULL

InitLoaded == LoadedIn(InitialContainer)

\* The gesture machine: pointer and tool events in any order on a loaded
\* editor of fixed size.
NextMachine ==
    \/ \E pos \in Diagonal : gestures < MachineGestures /\ PointerDown(pos)
    \/ \E pos \in Diagonal : PointerMove(pos)
    \/ \E pos \in Diagonal : PointerUp(pos)
    \/ \E pos \in Diagonal : PointerLeave(pos)
    \/ HandleUndo
    \/ \E t \in Tools : SetTool(t)

SpecMachine == InitLoaded /\ [][NextMachine]_vars

\* Undo sessions: runs of pen gestures and undos on a loaded editor of fixed
\* size, long enough for a history of five entries.
NextUndo ==
    \/ \E pos \in NearPoints : gestures < UndoGestures /\ PointerDown(pos)
    \/ \E pos \in NearPoints : PointerMove(pos)
    \/ \E pos \in NearPoints : PointerUp(pos)
    \/ \E pos \in NearPoints : PointerLeave(pos)
    \/ HandleUndo

SpecUndo == InitLoaded /\ [][NextUndo]_vars

\* Select-and-move sessions: pen and move tool (no undo) on a loaded editor of fixed
\* size, long enough to draw, select and move.
MoveTools == {"pen", "move"}

NextMove ==
    \/ \E pos \in Diagonal : gestures < MoveGestures /\ PointerDown(pos)
    \/ \E pos \in Diagonal : PointerMove(pos)
    \/ \E pos \in Diagonal : PointerUp(pos)
    \/ \E pos \in Diagonal : PointerLeave(pos)
    \/ \E t \in MoveTools : SetTool(t)

SpecMove == InitLoaded /\ [][NextMove]_vars

\* Select-and-move sessions with undo.
NextMoveUndo ==
    \/ \E pos \in Diagonal : gestures < MoveUndoGestures /\ PointerDown(pos)
    \/ \E pos \in Diagonal : PointerMove(pos)
    \/ \E pos \in Diagonal : PointerUp(pos)
    \/ \E pos \in Diagonal : PointerLeave(pos)
    \/ \E t \in MoveTools : SetTool(t)
    \/ HandleUndo

SpecMoveUndo == InitLoaded /\ [][NextMoveUndo]_vars

\* Saving sessions on a display half the natural size: gestures with any
\* tool on a loaded editor whose container is 2x1, then save.
HalfContainer == <<2, 1>>
HalfPoints == {[x |-> 0, y |-> 0], [x |-> 1, y |-> 0], [x |-> 1, y |-> 1], [x |-> 2, y |-> 1]}

NextHalf ==
    \/ \E pos \in HalfPoints : gestures < HalfGestures /\ PointerDown(pos)
    \/ \E pos \in HalfPoints : PointerMove(pos)
    \/ \E pos \in HalfPoints : PointerUp(pos)
    \/ \E pos \in HalfPoints : PointerLeave(pos)
    \/ \E t \in Tools : SetTool(t)
    \/ HandleSave

SpecHalf == LoadedIn(HalfContainer) /\ [][NextHalf]_vars

\* Sizing sessions: the editor just mounted, the container taking any size,
\* a collapsed one included, around one pen gesture and undo.
NextSizing ==
    \/ ImageLoad
    \/ ImageError
    \/ \E c \in SizingContainers : Resize(c)
    \/ \E pos \in NearPoints : gestures < SizingGestures /\ PointerDown(pos)
    \/ \E pos \in NearPoints : PointerMove(pos)
    \/ \E pos \in NearPoints : PointerUp(pos)
    \/ \E pos \in NearPoints : PointerLeave(pos)
    \/ HandleUndo

SpecSizing == Init /\ [][NextSizing]_vars

\* The contain fit by itself: setupCanvas' lines 55-75 for the container's
\* size and the image's natural size, as the load or a resize runs them.
ComputeFit(c) ==
    /\ container' = c
    /\ rendered' = RenderedDouble(c, natural)
    /\ UNCHANGED <<imgState, canvas, ctx, canvasPosition, gestureVars, drawingTool,
                   drawingColor, history, historyIndex, gestures, editing, saved,
                   mimeType, saveOutcome, slotVars, natural>>

InitFit ==
    /\ container \in FitSizes
    /\ natural \in {[width |-> n[1], height |-> n[2]] : n \in FitSizes}
    /\ rendered = NULL
    /\ imgState = "complete"
    /\ canvas = Blank(DefaultCanvasSize.width, DefaultCanvasSize.height)
    /\ ctx = DefaultCtx
    /\ canvasPosition = [top |-> Rat(0, 1), left |-> Rat(0, 1)]
    /\ isDrawing = FALSE
    /\ isSelecting = FALSE
    /\ isMoving = FALSE
    /\ startCoords = [x |-> 0, y |-> 0]
    /\ snapshot = NULL
    /\ selectionRect = NULL
    /\ selectedImageData = NULL
    /\ moveStartOffset = [x |-> 0, y |-> 0]
    /\ drawingTool = "pen"
    /\ drawingColor = "#ff0000"
    /\ history = <<>>
    /\ historyIndex = -1
    /\ gestures = 0
    /\ editing = TRUE
    /\ saved = NULL
    /\ mimeType = "image/png"
    /\ saveOutcome = "none"
    /\ images = [i \in 1 .. MAX_IMAGES |->
                   IF i = 1 THEN Uploaded(1, CHOOSE f \in Files : f.type = "image/png")
                   ELSE EmptySlot(i)]
    /\ calls = <<>>

NextFit == \E c \in FitSizes : ComputeFit(c)

SpecFit == InitFit /\ [][NextFit]_vars

\* The App with no editor open: uploads into the slots and removals.
InitSlots ==
    /\ images = [i \in 1 .. MAX_IMAGES |-> EmptySlot(i)]
    /\ calls = <<>>
    /\ natural = NaturalSize
    /\ rendered = NULL
    /\ editing = FALSE
    /\ imgState = "loading"
    /\ container = InitialContainer
    /\ canvas = Blank(DefaultCanvasSize.width, DefaultCanvasSize.height)
    /\ ctx = DefaultCtx
    /\ canvasPosition = [top |-> Rat(0, 1), left |-> Rat(0, 1)]
    /\ isDrawing = FALSE
    /\ isSelecting = FALSE
    /\ isMoving = FALSE
    /\ startCoords = [x |-> 0, y |-> 0]
    /\ snapshot = NULL
    /\ selectionRect = NULL
    /\ selectedImageData = NULL
    /\ moveStartOffset = [x |-> 0, y |-> 0]
    /\ drawingTool = "pen"
    /\ drawingColor = "#ff0000"
    /\ history = <<>>
    /\ historyIndex = -1
    /\ gestures = 0
    /\ saved = NULL
    /\ mimeType = NULL
    /\ saveOutcome = "none"

NextSlots ==
    \/ \E id \in 1 .. MAX_IMAGES, f \in Files :
          Len(calls) < MaxCalls /\ HandleImageChange(id, f)
    \/ \E i \in DOMAIN calls : OnLoadEnd(i)
    \/ \E id \in 1 .. MAX_IMAGES : Len(calls) < MaxCalls /\ HandleImageRemove(id)

SpecSlots == InitSlots /\ [][NextSlots]_vars

\* ------------------------------------------------------------------ claims
Idle == ~isDrawing /\ ~isSelecting /\ ~isMoving

\* The canvas as getImageData(0, 0, width, height) reads it.
Surface == GetImageData(canvas, 0, 0, canvas.width, canvas.height)

\* C1: once the history has an entry, the cursor indexes one of its entries:
\* 0 <= historyIndex < length(history).
C1_CursorInRange ==
    Len(history) > 0 => (0 <= historyIndex /\ historyIndex < Len(history))

\* An undo has moved the cursor off the end of a history of two entries.
C1_Witness == Len(history) = 2 /\ historyIndex = 0 /\ gestures = 1

\* C2: a commit drops the entries after the cursor, appends the surface as
\* it is when the gesture ends, and leaves the cursor on the new last entry;
\* so the new length is (cursor + 1) + 1 and the entries up to the cursor
\* are kept.
C2_CommitTruncatesAndAppends ==
    [][(history' # history /\ Len(history) > 0) =>
          /\ history' = Append(SubSeq(history, 1, historyIndex + 1), Surface)
          /\ Len(history') = (historyIndex + 1) + 1
          /\ \A i \in 1 .. historyIndex + 1 : history'[i] = history[i]
          /\ historyIndex' = Len(history') - 1]_vars

\* Five gestures were committed and the history holds four entries with the
\* cursor at the end: a commit after undos dropped the undone entries.
C2_Witness ==
    /\ gestures = 5 /\ Idle
    /\ Len(history) = 4 /\ historyIndex = 3

\* A raster redrawn by the sizing effect on a canvas cv in a container cont
\* whose rendered size is fractional.
Refitted(entry, cv, cont) ==
    LET r == Rendered(cont, NaturalSize)
    IN DrawImageScaled(Blank(cv.width, cv.height), entry, r.width, r.height)

\* C3: undo with the cursor at 0 (or no history) changes nothing; with the
\* cursor above 0 it lowers the cursor by one, keeps the entries, and
\* repaints the canvas with the entry at the new cursor.
C3_Undo ==
    [][HandleUndo =>
          IF historyIndex <= 0
          THEN UNCHANGED vars
          ELSE /\ historyIndex' = historyIndex - 1
               /\ history' = history
               /\ \/ canvas' = PutImageData(canvas, history[historyIndex], 0, 0)
                  \/ canvas' = Refitted(history[historyIndex], canvas', container)]_vars

\* An undo has acted: the cursor is below the end and the canvas shows the
\* entry at the cursor, which differs from the entry after it.
C3_Witness ==
    /\ historyIndex >= 0 /\ historyIndex < Len(history) - 1
    /\ Surface = history[historyIndex + 1]
    /\ history[historyIndex + 1] # history[historyIndex + 2]

\* A raster as it is, or rescaled to the size of a canvas cv.
Fitted(entry, cv, cont) ==
    {entry, Refitted(entry, cv, cont),
     DrawImageScaled(Blank(cv.width, cv.height), entry, Rat(cv.width, 1), Rat(cv.height, 1))}

\* C4: every undo that moves the cursor leaves the surface holding the
\* content committed at the entry it moves to (as it was, or rescaled to the
\* canvas), also with selecting gestures and resizes between the commits.
C4_UndoRestoresCommitted ==
    [][(HandleUndo /\ historyIndex > 0) =>
          (canvas' \in Fitted(history[historyIndex], canvas', container))]_vars

\* C5: whenever the history is non-empty, entry 0 is the annotation-free
\* surface at the canvas' current size.
C5_EntryZeroPristine ==
    Len(history) > 0 => history[1] = Blank(canvas.width, canvas.height)

\* C6: at most one of isDrawing, isSelecting, isMoving is set.
C6_OneGestureAtATime ==
    /\ ~(isDrawing /\ isSelecting)
    /\ ~(isDrawing /\ isMoving)
    /\ ~(isSelecting /\ isMoving)

\* C7: a pointer-down while a gesture is active changes none of the gesture
\* flags, the anchor, the pre-gesture snapshot, the selection rectangle, the
\* canvas or the history.
C7_PointerDownIgnoredWhenBusy ==
    [][(gestures' # gestures /\ ~Idle) =>
          UNCHANGED <<isDrawing, isSelecting, isMoving, startCoords, snapshot,
                      selectionRect, canvas, history, historyIndex>>]_vars

\* A pointer-up or pointer-leave step.
StopStep == \E pos \in Points(canvas) : PointerUp(pos) \/ PointerLeave(pos)

\* C8: pointer-up and pointer-leave end the active gesture: from any state
\* with a gesture active the next state is idle, and a pointer-leave at a
\* point has the effect of a pointer-up at that point.
C8_StopEndsGesture ==
    [][/\ (StopStep /\ ~Idle) => Idle'
       /\ \A pos \in Points(canvas) : PointerLeave(pos) <=> PointerUp(pos)]_vars

\* C9: a pointer-up or pointer-leave while drawing commits exactly one new
\* entry, the surface as last rendered, and leaves that surface on the
\* canvas (a zero-movement gesture included); while idle it commits nothing.
C9_DrawingGestureCommits ==
    [][StopStep =>
          /\ isDrawing =>
               /\ ~isDrawing'
               /\ Len(history') = (historyIndex + 1) + 1
               /\ historyIndex' = historyIndex + 1
               /\ history'[Len(history')] = Surface
               /\ canvas' \in {canvas, Refitted(Surface, canvas', container)}
          /\ Idle => UNCHANGED <<history, historyIndex, canvas>>]_vars

\* A pen gesture with no movement has been committed: the new entry equals
\* the one before it.
C9_Witness ==
    /\ imgState = "complete" /\ Idle /\ gestures = 1
    /\ ctx.path = MoveTo(startCoords)
    /\ Len(history) = 2 /\ historyIndex = 1
    /\ history[2] = history[1] /\ Surface = history[2]

\* The move gesture's lifted pixels sit at the position tracked for pos.
TrackedAt(pos) ==
    /\ selectedImageData # NULL /\ snapshot # NULL
    /\ canvas = PutImageData(PutImageData(canvas, snapshot, 0, 0), selectedImageData,
                             pos.x - moveStartOffset.x, pos.y - moveStartOffset.y)
    /\ pos # startCoords

\* C10: a move gesture begun at p0 inside the selection rectangle, tracked
\* to p1 and released there leaves the lifted pixels with their origin at
\* the rectangle's origin + (p1 - p0) and the rectangle's old place empty
\* where the moved pixels do not cover it.
C10_MoveRelocates ==
    [][\A p1 \in Diagonal :
          (PointerUp(p1) /\ isMoving /\ ~isDrawing /\ ~isSelecting
              /\ selectionRect # NULL /\ TrackedAt(p1)) =>
            LET ox == selectionRect.x + (p1.x - startCoords.x)
                oy == selectionRect.y + (p1.y - startCoords.y)
            IN \A p \in DOMAIN canvas'.data :
                 IF <<p[1] - ox, p[2] - oy>> \in DOMAIN selectedImageData.data
                 THEN canvas'.data[p] = selectedImageData.data[<<p[1] - ox, p[2] - oy>>]
                 ELSE (<<p[1] - selectionRect.x, p[2] - selectionRect.y>>
                          \in DOMAIN selectedImageData.data)
                      => canvas'.data[p] = NONE]_vars

\* C11: save changes neither the canvas, the history, the cursor, the
\* selection rectangle nor the gesture flags, and what it hands to onSave is
\* the composite of the canvas as it is.
C11_SaveReadOnly ==
    [][HandleSave =>
          /\ UNCHANGED <<canvas, history, historyIndex, selectionRect,
                         isDrawing, isSelecting, isMoving>>
          /\ saved' # saved => saved' = Composite(Surface, imgState)]_vars

\* A save has delivered the composite of a canvas that differs from the
\* entry at the cursor.
C11_Witness ==
    /\ saved # NULL /\ ~editing /\ historyIndex >= 0
    /\ saved = Composite(Surface, imgState)
    /\ saved # Composite(history[historyIndex + 1], imgState)

\* The output pixel p has its centre in the part of the natural-size raster
\* that the canvas pixel q scales to: q[i] * I / D <= p[i] + 1/2 < (q[i] + 1) * I / D.
ScalesOnto(q, p, cv, out) ==
    /\ 2 * q[1] * out.width <= (2 * p[1] + 1) * cv.width
    /\ (2 * p[1] + 1) * cv.width < 2 * (q[1] + 1) * out.width
    /\ 2 * q[2] * out.height <= (2 * p[2] + 1) * cv.height
    /\ (2 * p[2] + 1) * cv.height < 2 * (q[2] + 1) * out.height

\* C12: the saved raster has the image's natural width and height, and each
\* of its pixels shows the canvas pixel that scales onto it linearly
\* (x * Iw / Dw, y * Ih / Dh), annotated where that one is annotated, with
\* no pixel left out.
C12_CompositeScales ==
    saved # NULL =>
       /\ saved.width = (IF imgState = "complete" THEN NaturalSize.width ELSE 0)
       /\ saved.height = (IF imgState = "complete" THEN NaturalSize.height ELSE 0)
       /\ \A p \in DOMAIN saved.data :
             /\ \E q \in DOMAIN canvas.data : ScalesOnto(q, p, canvas, saved)
             /\ \A q \in DOMAIN canvas.data :
                   ScalesOnto(q, p, canvas, saved) =>
                      saved.data[p] = (IF canvas.data[q] = NONE THEN "image"
                                       ELSE canvas.data[q])

\* On a canvas half the natural size, one annotated pixel at (0,0) was saved
\* as a 2x2 annotated square at (0,0).
C12_Witness ==
    /\ saved # NULL /\ canvas.width * 2 = saved.width /\ canvas.height * 2 = saved.height
    /\ \A q \in DOMAIN canvas.data : canvas.data[q] # NONE <=> q = <<0, 0>>
    /\ \A p \in DOMAIN saved.data : saved.data[p] # "image" <=> (p[1] < 2 /\ p[2] < 2)

\* A resize step.
ResizeStep == \E c \in SizingContainers : Resize(c)

\* C13: a resize while idle, on a canvas of the size the entry at the
\* cursor was committed at, finds the canvas holding that entry and leaves
\* it holding the rescaled copy of what it held.
C13_IdleResizePreserves ==
    [][(ResizeStep /\ Idle /\ imgState = "complete" /\ historyIndex >= 0
           /\ canvas.width = history[historyIndex + 1].width
           /\ canvas.height = history[historyIndex + 1].height
           /\ (canvas'.width # canvas.width \/ canvas'.height # canvas.height)) =>
          /\ Surface = history[historyIndex + 1]
          /\ canvas' = Refitted(Surface, canvas', container')]_vars

\* C14: a sizing (the load event or a resize) with a container of no width
\* or no height, or an image that has not loaded or has no natural size,
\* leaves the canvas, its placement and the history as they are, and
\* creates no entry 0.
C14_DegenerateSizingDefers ==
    [][((ResizeStep \/ ImageLoad)
           /\ (container'[1] = 0 \/ container'[2] = 0 \/ imgState' # "complete")) =>
          UNCHANGED <<canvas, canvasPosition, history, historyIndex>>]_vars

\* C15: save never ends by a bare return: when it cannot produce the output
\* raster it reports the failure to its caller.
C15_SaveNeverSilent == saveOutcome # "returned"

\* The stroke style of the dashed selection preview (line 200); no drawing
\* colour of the model equals it.
PreviewStyle == "#FFFFFF"

\* C16: the step that ends a selecting gesture leaves the canvas equal to
\* the pre-gesture snapshot, and no history entry ever holds a pixel of the
\* dashed preview.
C16_PreviewNeverCommitted ==
    [][/\ (StopStep /\ isSelecting /\ ~isDrawing /\ ~isMoving) => canvas' = snapshot
       /\ \A i \in 1 .. Len(history') :
             \A p \in DOMAIN history'[i].data : history'[i].data[p] # PreviewStyle]_vars

\* C17: a resize arriving while a gesture is active leaves the canvas (size
\* and content), the pre-gesture snapshot and the drawing context as they
\* are.
C17_NoResizeDuringGesture ==
    [][(ResizeStep /\ ~Idle) => UNCHANGED <<canvas, snapshot, ctx>>]_vars

\* C18: a pointer-down with the move tool while idle starts a moving gesture
\* and keeps the selection rectangle when there is one and the pointer is
\* strictly inside it (x < px < x + width, y < py < y + height); otherwise
\* it starts a selecting gesture and discards the rectangle.
C18_MoveToolPointerDown ==
    [][(gestures' # gestures /\ Idle /\ drawingTool = "move") =>
          IF /\ selectionRect # NULL
             /\ selectionRect.x < startCoords'.x
             /\ startCoords'.x < selectionRect.x + selectionRect.width
             /\ selectionRect.y < startCoords'.y
             /\ startCoords'.y < selectionRect.y + selectionRect.height
          THEN /\ isMoving' /\ ~isSelecting' /\ ~isDrawing'
               /\ selectionRect' = selectionRect
          ELSE /\ isSelecting' /\ ~isMoving' /\ ~isDrawing'
               /\ selectionRect' = NULL]_vars

\* A moving gesture is under way, begun strictly inside the rectangle of an
\* earlier selection.
C18_Witness ==
    /\ isMoving /\ ~isSelecting /\ ~isDrawing /\ drawingTool = "move"
    /\ selectionRect # NULL /\ selectionRect.width = 2 /\ selectionRect.height = 2
    /\ startCoords = [x |-> selectionRect.x + 1, y |-> selectionRect.y + 1]

\* A pointer-move step.
MoveStep == \E pos \in Points(canvas) : PointerMove(pos)

\* C19: no step of a selecting gesture commits: the pointer-down that starts
\* it from idle, the pointer-moves while selecting, and the pointer-up or
\* pointer-leave that ends it leave the history and the cursor as they are.
C19_SelectingNeverCommits ==
    [][(\/ gestures' # gestures /\ Idle /\ isSelecting'
        \/ isSelecting /\ ~isDrawing /\ ~isMoving /\ (MoveStep \/ StopStep)) =>
          UNCHANGED <<history, historyIndex>>]_vars

\* A selecting gesture has run from pointer-down over a pointer-move to its
\* end and left a rectangle with area; the history is as it was on loading.
C19_Witness ==
    /\ Idle /\ gestures = 1 /\ drawingTool = "move"
    /\ selectionRect # NULL /\ selectionRect.width > 0 /\ selectionRect.height > 0
    /\ Surface # snapshot
    /\ Len(history) = 1 /\ historyIndex = 0

\* C20: a moving gesture commits exactly one entry, at the pointer-up or
\* pointer-leave that ends it, and never changes the selection rectangle:
\* the pointer-down that starts it and the pointer-moves commit nothing, the
\* end appends the canvas as one entry after the cursor, and the rectangle
\* is the same after every one of these steps.
C20_MoveCommitsOnceRectStays ==
    [][/\ (gestures' # gestures /\ Idle /\ isMoving') =>
             UNCHANGED <<history, historyIndex, selectionRect>>
       /\ (isMoving /\ ~isDrawing /\ ~isSelecting /\ MoveStep) =>
             UNCHANGED <<history, historyIndex, selectionRect>>
       /\ (isMoving /\ ~isDrawing /\ ~isSelecting /\ StopStep) =>
             /\ Idle'
             /\ Len(history') = (historyIndex + 1) + 1
             /\ historyIndex' = historyIndex + 1
             /\ history'[Len(history')] = Surface
             /\ selectionRect' = selectionRect]_vars

\* A selecting gesture and then a moving gesture that dragged the pixels
\* have ended: one entry was committed and the rectangle is where the
\* selection put it, not where the pixels went.
C20_Witness ==
    /\ Idle /\ gestures = 2 /\ drawingTool = "move"
    /\ selectedImageData # NULL /\ selectionRect # NULL
    /\ selectionRect.width = 2 /\ selectionRect.height = 2
    /\ startCoords.x - moveStartOffset.x = selectionRect.x
    /\ startCoords.y - moveStartOffset.y = selectionRect.y
    /\ Surface # snapshot
    /\ Surface # ClearRect(snapshot, selectionRect.x, selectionRect.y,
                           selectionRect.width, selectionRect.height)
    /\ \E pos \in Points(canvas) :
          /\ pos # startCoords
          /\ Surface = PutImageData(snapshot, selectedImageData,
                                    pos.x - moveStartOffset.x, pos.y - moveStartOffset.y)
    /\ Len(history) = 2 /\ historyIndex = 1 /\ history[2] = Surface

\* C21: an undo with the cursor above 0 leaves no selection rectangle, and
\* a pointer-down with the move tool that finds no rectangle starts a
\* selecting gesture, not a moving one.
C21_UndoClearsSelection ==
    [][/\ (historyIndex > 0 /\ HandleUndo) => selectionRect' = NULL
       /\ (gestures' # gestures /\ drawingTool = "move" /\ selectionRect = NULL) =>
             (isSelecting' /\ isMoving' = isMoving)]_vars

\* A selection, a committed pen gesture and an undo are behind; the
\* pointer-down with the move tool that followed started selecting.
C21_Witness ==
    /\ gestures = 3 /\ drawingTool = "move"
    /\ isSelecting /\ ~isMoving /\ ~isDrawing
    /\ selectionRect = NULL
    /\ Len(history) = 2 /\ historyIndex = 0
    /\ startCoords = [x |-> 1, y |-> 1]

\* C22: the rectangle a selecting gesture stores on release is the
\* normalised one, x and y the smaller coordinates of anchor and release
\* point, width and height the absolute differences; so width and height
\* are never negative and the rectangle is the same for a drag from a to r
\* as for one from r to a.
C22_StoredRectNormalised ==
    [][(~isDrawing /\ isSelecting /\ ~isSelecting') =>
         LET Stored(a, r) == [x |-> Min(a.x, r.x), y |-> Min(a.y, r.y),
                              width |-> Abs(r.x - a.x), height |-> Abs(r.y - a.y)]
             a == startCoords
         IN \E r \in Points(canvas) :
               /\ PointerUp(r) \/ PointerLeave(r)
               /\ selectionRect' = Stored(a, r)
               /\ selectionRect' = Stored(r, a)
               /\ selectionRect'.width >= 0 /\ selectionRect'.height >= 0]_vars

\* The only gesture so far was anchored at the far corner and released at
\* the origin: the stored rectangle starts at the origin.
C22_Witness ==
    /\ Idle /\ gestures = 1
    /\ startCoords = [x |-> 2, y |-> 2]
    /\ selectionRect = [x |-> 0, y |-> 0, width |-> 2, height |-> 2]

\* C23: whenever no gesture is in progress the context's composite
\* operation is source-over; the eraser's destination-out does not outlive
\* the gesture, whatever tool switches, further pointer-downs or undos
\* happen during it.
C23_IdleCompositesNormally == Idle => ctx.gco = "source-over"

\* An eraser gesture (line width 20) has been committed and none is in progress.
C23_Witness ==
    /\ Idle /\ ctx.lineWidth = 20 /\ ctx.gco = "source-over"
    /\ Len(history) >= 2

\* C24: until setupCanvas has sized the canvas for the first time (the image
\* has not loaded, or has no natural width), commits, undos and pointer
\* events do nothing: the history is empty and the cursor is unset.
C24_NothingBeforeFirstSizing ==
    imgState # "complete" => (Len(history) = 0 /\ historyIndex = -1)

\* C26: a moving gesture released before any pixel was put back (the canvas
\* is still the pre-gesture snapshot with the selected rectangle cleared)
\* leaves the canvas as the snapshot: the lifted pixels are back in place.
\* Surfaces carrying a selection preview are left aside.
C26_StillMoveKeepsSurface ==
    [][(/\ isMoving /\ ~isDrawing /\ ~isSelecting
        /\ selectionRect # NULL
        /\ \A p \in DOMAIN snapshot.data : snapshot.data[p] # PreviewStyle
        /\ Surface = ClearRect(snapshot, selectionRect.x, selectionRect.y,
                               selectionRect.width, selectionRect.height)
        /\ StopStep)
       => canvas' = snapshot]_vars

\* C25: for a container and an image of positive sizes the placement is the
\* contain fit: the rendered width is at most the container's and the
\* rendered height at most the container's; when the image is the wider of
\* the two (Iw*Ch > Cw*Ih) the width is the container's and left is 0,
\* otherwise the height is the container's and top is 0; top and left are
\* never negative.
C25_ContainFit ==
    rendered # NULL =>
        /\ ~DoubleGreater(rendered.width, Double(container[1]))
        /\ ~DoubleGreater(rendered.height, Double(container[2]))
        /\ IF natural.width * container[2] > container[1] * natural.height
           THEN rendered.width = Double(container[1]) /\ rendered.left = Zero
           ELSE rendered.height = Double(container[2]) /\ rendered.top = Zero
        /\ ~DoubleGreater(Zero, rendered.top)
        /\ ~DoubleGreater(Zero, rendered.left)

\* The calls made for slot id, by their place in the call order.
CallsFor(id) == {i \in DOMAIN calls : calls[i].id = id}

\* C27: a slot whose latest call is handleImageRemove is empty (file, base64,
\* annotatedBase64 and mimeType null), also when a read started by an earlier
\* handleImageChange ends after the removal; and a slot whose latest call is
\* handleImageChange holds that call's file once no read for it is in flight.
C27_LatestCallDecidesSlot ==
    \A id \in 1 .. MAX_IMAGES :
        CallsFor(id) # {} =>
          LET latest == calls[CHOOSE i \in CallsFor(id) : \A j \in CallsFor(id) : j <= i]
              slot == images[id]
          IN /\ latest.op = "remove" =>
                  /\ slot.file = NULL /\ slot.base64 = NULL
                  /\ slot.annotatedBase64 = NULL /\ slot.mimeType = NULL
             /\ (latest.op = "change" /\ \A i \in CallsFor(id) : ~calls[i].reading) =>
                  slot.file = latest.file

=============================================================================
